---- MODULE Spec2Model ----
(***************************************************************************)
(* Model of autolysis.py: a linear batch pipeline                          *)
(*   token check -> argument check -> Loader -> Profiler -> Visualizer     *)
(*   -> Narrator -> Reporter.                                              *)
(* Strings are sequences of one-character strings; a fixed literal of the  *)
(* source that contains no path separator is kept as one element.          *)
(***************************************************************************)
EXTENDS Integers, Sequences, FiniteSets, TLC

\* ------------------------------------------------------------------ bounds
MaxNameLen == 2
MaxExtraArgs == 1
MaxStoryLen == 3

\* ------------------------------------------------------- program constants
HTTP_OK == 200

None == "None"
\* values of variables not yet assigned
NoData == [loaded |-> FALSE, has_numeric |-> FALSE]
NoResponse == [kind |-> "none", status |-> 0, shape |-> "none", content |-> <<>>]
NoPrompt == [dataset_name |-> <<>>, correlation |-> "unbuilt"]

\* ----------------------------------------------------------------- strings
PathChars == {"a", ".", "/"}
StoryChars == {" ", "x"}

SeqsUpTo(S, n) == UNION {[1..k -> S] : k \in 0..n}

Paths == SeqsUpTo(PathChars, MaxNameLen) \ {<<>>}
Contents == SeqsUpTo(StoryChars, MaxStoryLen)

\* str.rfind: the highest index holding c, 0 when there is none
rfind(p, c) ==
    LET hits == {i \in 1..Len(p) : p[i] = c}
    IN IF hits = {} THEN 0 ELSE CHOOSE i \in hits : \A j \in hits : j <= i

\* os.path.basename (posix): everything after the last separator
basename(p) == SubSeq(p, rfind(p, "/") + 1, Len(p))

\* os.path.splitext: the extension starts at the last dot of the last
\* component, unless only dots precede it in that component
splitext(p) ==
    LET sepIndex == rfind(p, "/")
        dotIndex == rfind(p, ".")
    IN IF dotIndex > sepIndex
          /\ \E i \in (sepIndex + 1)..(dotIndex - 1) : p[i] # "."
       THEN <<SubSeq(p, 1, dotIndex - 1), SubSeq(p, dotIndex, Len(p))>>
       ELSE <<p, <<>>>>

DatasetName(f) == splitext(basename(f))[1]

IsSpace(c) == c \in {" ", "\n", "\t"}

RECURSIVE lstrip(_)
lstrip(s) == IF s = <<>> THEN s
             ELSE IF IsSpace(Head(s)) THEN lstrip(Tail(s)) ELSE s

RECURSIVE rstrip(_)
rstrip(s) == IF s = <<>> THEN s
             ELSE IF IsSpace(s[Len(s)]) THEN rstrip(SubSeq(s, 1, Len(s) - 1))
             ELSE s

stripLeftOnly(s) == lstrip(s)

\* str.strip()
strip(s) == rstrip(lstrip(s))

\* ------------------------------------------------------------------- state
VARIABLES
    pc,                 \* position in the script
    token,              \* AIPROXY_TOKEN as os.getenv returns it
    argv,               \* sys.argv, script name first
    filename,           \* analyze_csv's parameter
    reads,              \* the pd.read_csv calls made, in order, with results
    data,               \* the table: loaded or not, any int64/float64 column
    dataset_name,
    image_paths,
    correlation_matrix,
    vizOutcome,         \* how each attempted artifact's try block ended
    disk,               \* image files a savefig call of this run has completed
    requests,           \* number of requests.post calls made
    response,           \* what requests.post produced
    story,
    prompt,             \* the parts of the prompt that vary
    readme0,            \* README.md as it was before the run
    readme,             \* README.md now
    stdout,             \* the lines printed, as tags
    exit_code           \* <<>> while running, <<status>> once exited

vars == <<pc, token, argv, filename, reads, data, dataset_name, image_paths,
          correlation_matrix, vizOutcome, disk, requests, response, story,
          prompt, readme0, readme, stdout, exit_code>>

Absent == [exists |-> FALSE, pieces |-> <<>>]
OldReadme == [exists |-> TRUE, pieces |-> << <<"old">> >>]

ExtraArgs(k) == [i \in 1..k |-> <<"a">>]

ArgVectors ==
    { <<"autolysis.py">> } \cup
    { <<"autolysis.py", p>> \o ExtraArgs(k) : p \in Paths, k \in 0..MaxExtraArgs }

Init ==
    /\ pc = "import"
    /\ token \in {None, "", "tok"}
    /\ argv \in ArgVectors
    /\ filename = <<>>
    /\ reads = <<>>
    /\ data = NoData
    /\ dataset_name = <<>>
    /\ image_paths = <<>>
    /\ correlation_matrix = None
    /\ vizOutcome = <<>>
    /\ disk = {}
    /\ requests = 0
    /\ response = NoResponse
    /\ story = <<>>
    /\ prompt = NoPrompt
    /\ readme0 \in {Absent, OldReadme}
    /\ readme = readme0
    /\ stdout = <<>>
    /\ exit_code = <<>>

\* sys.exit(code), or an uncaught exception (code 1), or falling off the end
Exit(code) == pc' = "exited" /\ exit_code' = <<code>>

Emit(tag) == stdout' = Append(stdout, tag)

\* ------------------------------------------------------------ startup
TokenAbsentNoneOnly(t) == t = None

\* `not AIPROXY_TOKEN`
TokenAbsent(t) == t = None \/ t = ""

CheckToken ==
    /\ pc = "import"
    /\ IF TokenAbsent(token)
       THEN Emit("token_error") /\ Exit(1)
       ELSE pc' = "main" /\ UNCHANGED <<stdout, exit_code>>
    /\ UNCHANGED <<token, argv, filename, reads, data, dataset_name,
                   image_paths, correlation_matrix, vizOutcome, disk,
                   requests, response, story, prompt, readme0, readme>>

BadArgcTooFew(a) == Len(a) < 2

\* `len(sys.argv) != 2`
BadArgc(a) == Len(a) # 2

CheckArgs ==
    /\ pc = "main"
    /\ IF BadArgc(argv)
       THEN Emit("usage") /\ Exit(1) /\ UNCHANGED filename
       ELSE /\ filename' = argv[2]
            /\ pc' = "load_utf8"
            /\ UNCHANGED <<stdout, exit_code>>
    /\ UNCHANGED <<token, argv, reads, data, dataset_name, image_paths,
                   correlation_matrix, vizOutcome, disk, requests, response,
                   story, prompt, readme0, readme>>

\* ------------------------------------------------------------------ Loader
ReadOutcomes == {"ok", "UnicodeDecodeError", "OtherError"}

\* a path whose last component is empty names no regular file
CanLoad(f) == basename(f) \notin {<<>>, <<".">>, <<".", ".">>}

FallsBackOnAnyError(err) == err # "ok"

\* `except UnicodeDecodeError:` is the only handler of the first attempt
FallsBack(err) == err = "UnicodeDecodeError"

\* pd.read_csv(filename, encoding='utf-8')
LoadPrimary ==
    /\ pc = "load_utf8"
    /\ \E r \in ReadOutcomes :
         /\ r = "ok" => CanLoad(filename)
         /\ reads' = Append(reads, [encoding |-> "utf-8", result |-> r])
         /\ IF r = "ok"
            THEN /\ \E n \in BOOLEAN :
                      data' = [loaded |-> TRUE, has_numeric |-> n]
                 /\ Emit("loaded_utf8")
                 /\ pc' = "profile"
                 /\ UNCHANGED exit_code
            ELSE IF FallsBack(r)
            THEN /\ pc' = "load_fallback"
                 /\ UNCHANGED <<data, stdout, exit_code>>
            ELSE \* the exception is not caught: traceback on stderr, status 1
                 /\ Exit(1)
                 /\ UNCHANGED <<data, stdout>>
    /\ UNCHANGED <<token, argv, filename, dataset_name, image_paths,
                   correlation_matrix, vizOutcome, disk, requests, response,
                   story, prompt, readme0, readme>>

\* pd.read_csv(filename, encoding='ISO-8859-1') under `except Exception`
LoadFallback ==
    /\ pc = "load_fallback"
    /\ \E r \in {"ok", "OtherError"} :
         /\ r = "ok" => CanLoad(filename)
         /\ reads' = Append(reads, [encoding |-> "ISO-8859-1", result |-> r])
         /\ IF r = "ok"
            THEN /\ \E n \in BOOLEAN :
                      data' = [loaded |-> TRUE, has_numeric |-> n]
                 /\ Emit("loaded_with_ISO-8859-1")
                 /\ pc' = "profile"
                 /\ UNCHANGED exit_code
            ELSE /\ Emit("error_loading")
                 /\ Exit(1)
                 /\ UNCHANGED data
    /\ UNCHANGED <<token, argv, filename, dataset_name, image_paths,
                   correlation_matrix, vizOutcome, disk, requests, response,
                   story, prompt, readme0, readme>>

\* ---------------------------------------------------------------- Profiler
\* numeric_cols.empty
NumericEmpty(d) == ~d.has_numeric

Profile ==
    /\ pc = "profile"
    /\ dataset_name' = DatasetName(filename)
    /\ image_paths' = <<>>
    /\ correlation_matrix' = None
    /\ IF NumericEmpty(data)
       THEN Emit("no_numeric_warning") /\ pc' = "narrate"
       ELSE pc' = "viz_correlation" /\ UNCHANGED stdout
    /\ UNCHANGED <<token, argv, filename, reads, data, vizOutcome, disk,
                   requests, response, story, prompt, readme0, readme,
                   exit_code>>

\* -------------------------------------------------------------- Visualizer
\* Where a try block can end: "figure" before the matrix is assigned
\* (plt.figure or corr raises), "plot" while drawing, "save" in savefig,
\* "close" in plt.close after the append, "ok" with no exception.
CorrelationOutcomes == {"figure", "plot", "save", "close", "ok"}
PlotOutcomes == {"plot", "save", "close", "ok"}

CorrelationImage(n) == n \o <<"_correlation_heatmap.png">>
MissingValuesImage(n) == n \o <<"_missing_values_heatmap.png">>
BoxplotImage(n) == n \o <<"_boxplot.png">>

MatrixAssignedAfterSave(o) == o \in {"close", "ok"}

\* correlation_matrix = numeric_cols.corr() is the second statement
MatrixAssigned(o) == o # "figure"

AppendedBeforeSave(o) == o \in {"save", "close", "ok"}

\* image_paths.append follows plt.savefig
Appended(o) == o \in {"close", "ok"}

\* savefig returned
Saved(o) == o \in {"close", "ok"}

\* the body of one try/except block of the Visualizer
Artifact(o, image, tag, next) ==
    /\ vizOutcome' = Append(vizOutcome, o)
    /\ image_paths' = IF Appended(o) THEN Append(image_paths, image)
                      ELSE image_paths
    /\ IF Saved(o) THEN disk' = disk \cup {image}
       ELSE disk' = disk
    /\ IF o = "ok" THEN UNCHANGED stdout ELSE Emit(tag)
    /\ pc' = next
    /\ UNCHANGED exit_code

VizCorrelation ==
    /\ pc = "viz_correlation"
    /\ \E o \in CorrelationOutcomes :
         /\ correlation_matrix' = IF MatrixAssigned(o) THEN "matrix"
                                  ELSE correlation_matrix
         /\ Artifact(o, CorrelationImage(dataset_name),
                     "error_correlation", "viz_missing")
    /\ UNCHANGED <<token, argv, filename, reads, data, dataset_name,
                   requests, response, story, prompt, readme0, readme>>

VizMissingFatal ==
    /\ pc = "viz_missing"
    /\ \E o \in PlotOutcomes :
         IF o = "ok"
         THEN Artifact(o, MissingValuesImage(dataset_name),
                       "error_missing", "viz_boxplot")
         ELSE /\ Exit(1)
              /\ vizOutcome' = Append(vizOutcome, o)
              /\ UNCHANGED <<image_paths, disk, stdout>>
    /\ UNCHANGED <<token, argv, filename, reads, data, dataset_name,
                   correlation_matrix, requests, response, story, prompt,
                   readme0, readme>>

VizMissing ==
    /\ pc = "viz_missing"
    /\ \E o \in PlotOutcomes :
         Artifact(o, MissingValuesImage(dataset_name),
                  "error_missing", "viz_boxplot")
    /\ UNCHANGED <<token, argv, filename, reads, data, dataset_name,
                   correlation_matrix, requests, response, story, prompt,
                   readme0, readme>>

VizBoxplot ==
    /\ pc = "viz_boxplot"
    /\ \E o \in PlotOutcomes :
         Artifact(o, BoxplotImage(dataset_name), "error_boxplot", "narrate")
    /\ UNCHANGED <<token, argv, filename, reads, data, dataset_name,
                   correlation_matrix, requests, response, story, prompt,
                   readme0, readme>>

\* ---------------------------------------------------------------- Narrator
Statuses == {HTTP_OK, 500}

\* "raise": requests.post raised.  Otherwise a status and a body; shape says
\* how far result['choices'][0]['message']['content'].strip() gets:
\* "not_json" (response.json() raises), "no_choices" (KeyError/IndexError),
\* "content_null" (None has no strip), "ok" (content is a string).
Shapes == {"not_json", "no_choices", "content_null", "ok"}

Responses ==
    { [kind |-> "raise", status |-> 0, shape |-> "not_json", content |-> <<>>] }
    \cup { [kind |-> "http", status |-> s, shape |-> sh, content |-> <<>>] :
             s \in Statuses, sh \in Shapes \ {"ok"} }
    \cup { [kind |-> "http", status |-> s, shape |-> "ok", content |-> c] :
             s \in Statuses, c \in Contents }

\* `correlation_matrix.to_dict() if correlation_matrix is not None else 'N/A'`
PromptCorrelation(m) == IF m # None THEN m ELSE "N/A"

NarratorResultIgnoresStatus(r) ==
    IF r.kind = "raise" THEN "exception"
    ELSE IF r.shape = "ok" THEN "story"
    ELSE "exception"

\* the try block around the request: "http_error" is the else branch
\* (sys.exit passes `except Exception`), "exception" the handler
NarratorResult(r) ==
    IF r.kind = "raise" THEN "exception"
    ELSE IF r.status = HTTP_OK
         THEN IF r.shape = "ok" THEN "story" ELSE "exception"
         ELSE "http_error"

Narrate ==
    /\ pc = "narrate"
    /\ prompt' = [dataset_name |-> dataset_name,
                  correlation |-> PromptCorrelation(correlation_matrix)]
    /\ requests' = requests + 1
    /\ \E r \in Responses :
         /\ response' = r
         /\ IF NarratorResult(r) = "story"
            THEN /\ story' = strip(r.content)
                 /\ pc' = "report"
                 /\ UNCHANGED <<stdout, exit_code>>
            ELSE /\ Emit(IF NarratorResult(r) = "http_error"
                         THEN "http_error" ELSE "llm_error")
                 /\ Exit(1)
                 /\ UNCHANGED story
    /\ UNCHANGED <<token, argv, filename, reads, data, dataset_name,
                   image_paths, correlation_matrix, vizOutcome, disk,
                   readme0, readme>>

\* ---------------------------------------------------------------- Reporter
\* f"![{os.path.basename(img_path)}]({os.path.basename(img_path)})\n"
EmbedLine(p) == <<"![">> \o basename(p) \o <<"](">> \o basename(p) \o <<")\n">>

\* the f.write calls of the with block, one element per call
ReadmePieces(name, st, paths) ==
    << <<"# Analysis of ">> \o name \o <<"\n\n">>,
       <<"## Dataset Insights and Recommendations\n\n">>,
       <<"### Business Report\n">>,
       st,
       <<"\n\n### Visualizations\n">> >>
    \o [i \in 1..Len(paths) |-> EmbedLine(paths[i])]

\* open(readme_path, "w") truncates or creates the file when it succeeds;
\* the writes then fail after k of them, or the close fails, or all is well
Report ==
    /\ pc = "report"
    /\ LET full == ReadmePieces(dataset_name, story, image_paths)
       IN \E opened \in BOOLEAN, k \in 0..Len(full), closed \in BOOLEAN :
            IF ~opened
            THEN /\ Emit("readme_error")
                 /\ Exit(1)
                 /\ UNCHANGED readme
            ELSE /\ readme' = [exists |-> TRUE, pieces |-> SubSeq(full, 1, k)]
                 /\ IF k = Len(full) /\ closed
                    THEN Emit("complete") /\ Exit(0)
                    ELSE Emit("readme_error") /\ Exit(1)
    /\ UNCHANGED <<token, argv, filename, reads, data, dataset_name,
                   image_paths, correlation_matrix, vizOutcome, disk,
                   requests, response, story, prompt, readme0>>

\* ------------------------------------------------------------ specification
Next ==
    \/ CheckToken
    \/ CheckArgs
    \/ LoadPrimary
    \/ LoadFallback
    \/ Profile
    \/ VizCorrelation
    \/ VizMissing
    \/ VizBoxplot
    \/ Narrate
    \/ Report

Spec == Init /\ [][Next]_vars

TypeOK ==
    /\ pc \in {"import", "main", "load_utf8", "load_fallback", "profile",
               "viz_correlation", "viz_missing", "viz_boxplot", "narrate",
               "report", "exited"}
    /\ exit_code \in {<<>>, <<0>>, <<1>>}
    /\ requests \in 0..1
    /\ Len(image_paths) <= 3

\* ------------------------------------------------------------------ claims
Exited == pc = "exited"

NoInputRead == reads = <<>>
NoOutputWritten == disk = {} /\ readme = readme0
NoRequestSent == requests = 0

\* C1: with AIPROXY_TOKEN unset or empty the process terminates at once with
\* a non-zero status: it is never anywhere but at the start or exited, and no
\* input file is read, no image or README.md written, no request sent.
C1_MissingTokenStopsAtStartup ==
    (token = None \/ token = "") =>
        /\ pc \in {"import", "exited"}
        /\ NoInputRead /\ NoOutputWritten /\ NoRequestSent
        /\ Exited => exit_code = <<1>> /\ stdout = <<"token_error">>

C1_Witness ==
    token = "" /\ Exited /\ exit_code = <<1>> /\ Len(argv) = 2

\* C2: a failed completion request (the call raises, the status is not 200,
\* or a 200 body lacks choices[0].message.content) ends the process with a
\* non-zero status, README.md untouched, and exactly one request was sent.
RequestFailed(r) ==
    \/ r.kind = "raise"
    \/ r.kind = "http" /\ (r.status # 200 \/ r.shape # "ok")

C2_NarratorFailureIsFatal ==
    /\ requests <= 1
    /\ RequestFailed(response) =>
          /\ Exited /\ exit_code = <<1>>
          /\ readme = readme0
          /\ requests = 1
          /\ stdout[Len(stdout)] \in {"http_error", "llm_error"}

C2_Witness ==
    /\ Exited /\ response.kind = "http" /\ response.status = 500
    /\ response.shape = "ok" /\ response.content = <<"x">>
    /\ Len(image_paths) = 3 /\ readme = readme0

\* C3: argument count
ArgCount == Len(argv) - 1

NoStageRan ==
    /\ pc \in {"import", "main", "exited"}
    /\ NoInputRead /\ NoOutputWritten /\ NoRequestSent
    /\ ~data.loaded

\* C3 as stated: every invocation whose argument count is not one prints the
\* usage message and exits non-zero without running any pipeline stage.
C3_Original ==
    ArgCount # 1 =>
        /\ NoStageRan
        /\ Exited => stdout = <<"usage">> /\ exit_code # <<0>>

\* C3 amended: an invocation whose argument count is not one runs no pipeline
\* stage and exits non-zero; it prints the usage message when the token is
\* set, and the missing-token error (and no usage message) when it is not.
C3_WrongArgCountIsFatal ==
    ArgCount # 1 =>
        /\ NoStageRan
        /\ Exited =>
              /\ exit_code = <<1>>
              /\ stdout = IF token = None \/ token = ""
                          THEN <<"token_error">> ELSE <<"usage">>

C3_Witness ==
    ArgCount = 2 /\ token = "tok" /\ Exited /\ stdout = <<"usage">>

\* C4: the Loader tries UTF-8 first; ISO-8859-1 is tried only after the UTF-8
\* attempt failed with a decoding error; a fallback success prints the line
\* naming ISO-8859-1; when both attempts fail an error is printed, the status
\* is non-zero and no image or README.md has been written.
C4_LoaderFallback ==
    /\ Len(reads) <= 2
    /\ Len(reads) >= 1 => reads[1].encoding = "utf-8"
    /\ Len(reads) = 2 =>
          /\ reads[1].result = "UnicodeDecodeError"
          /\ reads[2].encoding = "ISO-8859-1"
          /\ reads[2].result = "ok" =>
                data.loaded /\ stdout[1] = "loaded_with_ISO-8859-1"
          /\ reads[2].result # "ok" =>
                /\ Exited /\ exit_code = <<1>>
                /\ stdout = <<"error_loading">>
                /\ NoOutputWritten /\ NoRequestSent
    /\ (Len(reads) = 1 /\ reads[1].result = "OtherError") =>
          Exited /\ exit_code = <<1>> /\ NoOutputWritten

C4_Witness ==
    /\ Len(reads) = 2 /\ reads[2].result = "ok"
    /\ Exited /\ exit_code = <<0>>

C4_WitnessBothFail ==
    Len(reads) = 2 /\ reads[2].result # "ok" /\ Exited

Range(q) == {q[i] : i \in 1..Len(q)}

SaveSucceeded(k) == k <= Len(vizOutcome) /\ vizOutcome[k] \in {"close", "ok"}

FixedOrder(n) == << n \o <<"_correlation_heatmap.png">>,
                    n \o <<"_missing_values_heatmap.png">>,
                    n \o <<"_boxplot.png">> >>

RECURSIVE SavedFrom(_, _)
SavedFrom(order, k) ==
    IF k > Len(order) THEN <<>>
    ELSE (IF SaveSucceeded(k) THEN <<order[k]>> ELSE <<>>)
         \o SavedFrom(order, k + 1)

\* C5: ImagePaths has at most three entries, no duplicates, and is exactly
\* the fixed order (correlation, missing values, boxplot) restricted to the
\* artifacts whose save succeeded in this run, each of which is on disk; an
\* artifact whose save did not succeed adds nothing.
C5_ImagePathsAreTheSavedArtifacts ==
    /\ Len(image_paths) \in 0..3
    /\ \A i, j \in 1..Len(image_paths) : i # j => image_paths[i] # image_paths[j]
    /\ image_paths = SavedFrom(FixedOrder(dataset_name), 1)
    /\ \A i \in 1..Len(image_paths) : image_paths[i] \in disk

C5_Witness ==
    /\ vizOutcome = <<"ok", "save", "ok">>
    /\ Len(image_paths) = 2
    /\ image_paths[2] = dataset_name \o <<"_boxplot.png">>

\* C6 as stated: when the Narrator builds its prompt the correlation matrix
\* is present (the prompt holds it, not 'N/A') if and only if the numeric
\* subset is non-empty, also when visualization steps fail.
C6_MatrixPresentIffNumeric ==
    prompt # NoPrompt =>
        (prompt.correlation # "N/A" <=> data.has_numeric)

AfterVisualizer == pc \in {"narrate", "report"} \/ (Exited /\ requests = 1)

HeatmapInPaths ==
    (dataset_name \o <<"_correlation_heatmap.png">>) \in Range(image_paths)

\* C7 as stated: after the Visualizer the matrix is non-null if and only if
\* a numeric column exists and the correlation heatmap's filename is in
\* ImagePaths; a null matrix becomes the placeholder in the prompt.
C7_Original ==
    AfterVisualizer =>
        /\ correlation_matrix # None <=> (data.has_numeric /\ HeatmapInPaths)
        /\ (prompt # NoPrompt /\ correlation_matrix = None) =>
              prompt.correlation = "N/A"

\* C7 amended: after the Visualizer the matrix is non-null if and only if a
\* numeric column exists and the heatmap block got past computing the matrix
\* (figure creation and corr() did not raise); so it is non-null whenever the
\* heatmap's filename is in ImagePaths, and also when drawing or saving the
\* heatmap failed afterwards.  A null matrix becomes the placeholder in the
\* prompt, a non-null one is embedded.
C7_MatrixIffComputed ==
    AfterVisualizer =>
        /\ correlation_matrix # None <=>
              (data.has_numeric /\ vizOutcome[1] # "figure")
        /\ HeatmapInPaths => correlation_matrix # None
        /\ prompt # NoPrompt =>
              prompt.correlation =
                  IF correlation_matrix = None THEN "N/A" ELSE "matrix"

C7_Witness ==
    /\ AfterVisualizer /\ prompt # NoPrompt
    /\ Len(vizOutcome) = 3 /\ vizOutcome[1] = "save" /\ correlation_matrix = "matrix"
    /\ ~HeatmapInPaths /\ prompt.correlation = "matrix"

\* C8: whatever artifacts fail, all three are attempted when numeric columns
\* exist, no artifact failure ends the process, the Narrator is reached, and
\* the exit status is decided by the Narrator's and the Reporter's outcome
\* alone.
C8_VisualizationFailuresNonFatal ==
    /\ pc \in {"viz_correlation", "viz_missing", "viz_boxplot"} =>
          exit_code = <<>>
    /\ (data.loaded /\ data.has_numeric /\ (Exited \/ pc \in {"narrate", "report"})) =>
          Len(vizOutcome) = 3
    /\ (data.loaded /\ Exited) =>
          /\ requests = 1 /\ response # NoResponse
          /\ exit_code = IF RequestFailed(response) \/ "readme_error" \in Range(stdout)
                         THEN <<1>> ELSE <<0>>

C8_Witness ==
    /\ Exited /\ exit_code = <<0>>
    /\ vizOutcome = <<"figure", "plot", "save">>
    /\ readme # readme0 /\ image_paths = <<>>

\* C9 as stated: a run that ends with a non-zero status has not created or
\* modified README.md.
C9_NoReadmeOnFailure ==
    (Exited /\ exit_code # <<0>>) => readme = readme0

AllSpace(q) == \A i \in 1..Len(q) : q[i] \in {" ", "\n", "\t"}

Trimmed(whole, inner) ==
    /\ inner = <<>> \/ (inner[1] # " " /\ inner[Len(inner)] # " ")
    /\ \E a, b \in 0..Len(whole) :
          /\ a + Len(inner) + b = Len(whole)
          /\ AllSpace(SubSeq(whole, 1, a))
          /\ inner = SubSeq(whole, a + 1, a + Len(inner))
          /\ AllSpace(SubSeq(whole, a + Len(inner) + 1, Len(whole)))

\* C10: on exit status 0 README.md is, in order: the heading naming the
\* dataset, the fixed headings, the completion content with surrounding
\* whitespace trimmed, the visualizations heading, then one embed line per
\* entry of ImagePaths, in order, alt text and path both the filename.
C10_ReadmeLayout ==
    (Exited /\ exit_code = <<0>>) =>
        /\ readme.exists
        /\ Len(readme.pieces) = 5 + Len(image_paths)
        /\ readme.pieces[1] = <<"# Analysis of ">> \o dataset_name \o <<"\n\n">>
        /\ readme.pieces[2] = <<"## Dataset Insights and Recommendations\n\n">>
        /\ readme.pieces[3] = <<"### Business Report\n">>
        /\ Trimmed(response.content, readme.pieces[4])
        /\ readme.pieces[5] = <<"\n\n### Visualizations\n">>
        /\ \A i \in 1..Len(image_paths) :
              readme.pieces[5 + i] =
                  <<"![">> \o image_paths[i] \o <<"](">> \o image_paths[i] \o <<")\n">>

C10_Witness ==
    /\ Exited /\ exit_code = <<0>>
    /\ response.content = <<" ", "x", " ">>
    /\ readme.pieces[4] = <<"x">>
    /\ Len(image_paths) = 3

====
